---- MODULE Spec2Model ----
(***************************************************************************)
(* Model of src/python/parakeet_transcribe.py: the sentence segmenter      *)
(* (tokens_to_sentences), the chunk loop and overlap stitcher              *)
(* (transcribe_with_chunking) and the command line driver (main).          *)
(*                                                                         *)
(* Time is counted in ticks of 1 / (SAMPLE_RATE * TicksPerSample) second,  *)
(* so that a duration need not be a whole number of samples and            *)
(* int(duration * SAMPLE_RATE) really truncates.  A text is a sequence of  *)
(* one-character strings.                                                  *)
(***************************************************************************)
EXTENDS Integers, Sequences, FiniteSets, TLC

\* ---------------------------------------------------------------- bounds
TicksPerSample == 2
MaxTokens == 2
MaxRunTokens == 3
MaxSegTokens == 3

\* ------------------------------------------------------ program constants
SAMPLE_RATE == 16000
Second == SAMPLE_RATE * TicksPerSample
DEFAULT_CHUNK_DURATION == 120 * Second
DEFAULT_OVERLAP_DURATION == 15 * Second
FALLBACK_TAIL == (16 * Second) \div 100
sentence_end_puncts == {".", "!", "?"}

\* ------------------------------------------------------------ input sets
\* --chunk-duration values given to main: below the fixed overlap, just
\* above it but off the sample grid, well above it, and the default.
ChunkDurations ==
    {10 * Second, 15 * Second + 1, 30 * Second, DEFAULT_CHUNK_DURATION}
\* <<chunk_duration, overlap_duration>> of a direct call of
\* transcribe_with_chunking
DirectConfigs ==
    {<<30 * Second, 0>>, <<30 * Second, DEFAULT_OVERLAP_DURATION>>,
     <<30 * Second + 1, 15 * Second + 1>>, <<30 * Second + 1, 30 * Second>>,
     <<10 * Second, DEFAULT_OVERLAP_DURATION>>,
     <<DEFAULT_CHUNK_DURATION, DEFAULT_OVERLAP_DURATION>>}
\* len(audio) after decoding
TotalSamples ==
    {10 * SAMPLE_RATE, 20 * SAMPLE_RATE, 45 * SAMPLE_RATE, 50 * SAMPLE_RATE}
\* window-relative token timestamps the recognizer may report; the last one
\* lies past the end of a 30 s window
TsRel == {0, 15 * Second, 30 * Second, 45 * Second}
\* token texts of the recognizer
RecognizerTexts == {<<"a">>, <<" ", "b", ".">>}
\* token texts given to the segmenter directly
TokenTexts ==
    {<<>>, <<" ">>, <<"a">>, <<" ", "b", ".">>, <<"c", "?", " ">>,
     <<".", "d">>, <<"!">>}
\* timestamps given to the segmenter directly
SegTimestamps == {0, 15 * Second, 30 * Second}
PlainTexts == {<<"h", "i">>}

SeqsOfLen(S, n) == [1..n -> S]
Min(a, b) == IF a < b THEN a ELSE b
Last(s) == s[Len(s)]

\* ------------------------------------------------------- str operations
RECURSIVE LStrip(_)
LStrip(s) == IF s = <<>> THEN s
             ELSE IF s[1] = " " THEN LStrip(Tail(s)) ELSE s

RECURSIVE RStrip(_)
RStrip(s) == IF s = <<>> THEN s
             ELSE IF s[Len(s)] = " " THEN RStrip(SubSeq(s, 1, Len(s) - 1))
             ELSE s

\* str.strip()
Strip(s) == RStrip(LStrip(s))

\* str.endswith(p) for a one-character p
EndsWith(s, p) == s # <<>> /\ s[Len(s)] = p

RECURSIVE Join(_)
\* ''.join(parts)
Join(parts) == IF parts = <<>> THEN <<>> ELSE Head(parts) \o Join(Tail(parts))

\* IsSentenceEnd with "p in token" written for "token.strip().endswith(p)"
IsSentenceEndAnywhere(token) ==
    \E p \in sentence_end_puncts : \E j \in 1..Len(token) : token[j] = p

\* any(token.strip().endswith(p) for p in sentence_end_puncts)
IsSentenceEnd(token) == \E p \in sentence_end_puncts : EndsWith(Strip(token), p)

\* ------------------------------------------------- tokens_to_sentences
\* One pass of the for loop body per call; i is the 1-based position of
\* the pair (token, ts) in zip(tokens, timestamps).
RECURSIVE SentenceFold(_, _, _, _, _, _)
SentenceFold(tokens, timestamps, i, sentences, current_tokens, current_start) ==
    IF i > Min(Len(tokens), Len(timestamps)) THEN sentences
    ELSE
      LET token == tokens[i]
          ts == timestamps[i]
          pending == Append(current_tokens, token)
          is_sentence_end == IsSentenceEnd(token)
          is_last_token == (i = Len(tokens))
          has_next == i < Len(timestamps)
      IN IF is_sentence_end \/ is_last_token
         THEN LET current_end == IF has_next THEN timestamps[i + 1]
                                 ELSE ts + FALLBACK_TAIL
                  text == Strip(Join(pending))
                  emitted == IF text # <<>>
                             THEN Append(sentences,
                                         [text |-> text,
                                          start |-> current_start,
                                          end |-> current_end])
                             ELSE sentences
              IN SentenceFold(tokens, timestamps, i + 1, emitted, <<>>,
                              IF has_next THEN timestamps[i + 1]
                              ELSE current_start)
         ELSE SentenceFold(tokens, timestamps, i + 1, sentences, pending,
                           current_start)

\* tokens_to_sentences with current_start initialised to 0.0 instead of
\* timestamps[0]
tokens_to_sentences_from_zero(tokens, timestamps) ==
    IF tokens = <<>> \/ timestamps = <<>> THEN <<>>
    ELSE SentenceFold(tokens, timestamps, 1, <<>>, <<>>, 0)

tokens_to_sentences(tokens, timestamps) ==
    IF tokens = <<>> \/ timestamps = <<>> THEN <<>>
    ELSE SentenceFold(tokens, timestamps, 1, <<>>, <<>>, timestamps[1])

\* ------------------------------------------------------------------ state
VARIABLES
    pc,                \* position of the run
    caller,            \* "main", "transcribe_with_chunking" or "tokens_to_sentences"
    chunk_duration,    \* argument, in ticks
    overlap_duration,  \* argument, in ticks
    completion_marker, \* TRUE when --completion-marker names a file
    total_samples,     \* len(audio)
    start,             \* loop variable of the chunk loop, in samples
    chunk_idx,
    all_tokens,
    all_timestamps,
    calls,             \* log of the asr.recognize calls made so far
    sentences,         \* value returned to the caller
    printed,           \* number of segments main has printed
    stdout_buf,        \* lines held in sys.stdout's buffer
    stdout,            \* lines a reader of the pipe can see
    marker,            \* TRUE when the completion-marker file exists
    exit_code

vars == <<pc, caller, chunk_duration, overlap_duration, completion_marker,
          total_samples, start, chunk_idx, all_tokens, all_timestamps, calls,
          sentences, printed, stdout_buf, stdout, marker, exit_code>>

\* int(chunk_duration * SAMPLE_RATE)
chunk_samples == chunk_duration \div TicksPerSample
\* int(overlap_duration * SAMPLE_RATE)
overlap_samples == overlap_duration \div TicksPerSample
\* stride with the overlap added instead of subtracted
stride_plus_overlap == chunk_samples + overlap_samples
stride == chunk_samples - overlap_samples
\* len(audio) / SAMPLE_RATE, in ticks
duration == total_samples * TicksPerSample

\* ------------------------------------------------------------- recognizer
TimedResults(n) ==
    UNION {{[kind |-> "timed", tokens |-> t, timestamps |-> s, text |-> <<>>] :
              t \in SeqsOfLen(RecognizerTexts, k), s \in SeqsOfLen(TsRel, k)} :
           k \in 0..n}

PlainResults ==
    {[kind |-> "plain", tokens |-> <<>>, timestamps |-> <<>>, text |-> x] :
       x \in PlainTexts}

RaisedResult == [kind |-> "raise", tokens |-> <<>>, timestamps |-> <<>>, text |-> <<>>]

RECURSIVE Recognized(_)
\* number of tokens the recognizer has returned in the calls cs
Recognized(cs) == IF cs = <<>> THEN 0
                  ELSE Len(Head(cs).tokens) + Recognized(Tail(cs))

\* what one asr.recognize call may return
RecognizerResults ==
    TimedResults(Min(MaxTokens, MaxRunTokens - Recognized(calls))) \cup PlainResults

Call(result, s, e) ==
    [start |-> s, end |-> e, kind |-> result.kind, tokens |-> result.tokens,
     timestamps |-> result.timestamps, text |-> result.text,
     prev_len |-> Len(all_timestamps)]

\* ------------------------------------------------------------ control flow
\* RaiseException with a handler that reports the error but does not call
\* sys.exit(1)
RaiseExceptionExitZero ==
    /\ pc' = IF caller = "main" THEN "exited" ELSE "raised"
    /\ exit_code' = exit_code

\* an exception leaves transcribe_with_chunking; main's handler exits 1
RaiseException ==
    /\ pc' = IF caller = "main" THEN "exited" ELSE "raised"
    /\ exit_code' = IF caller = "main" THEN 1 ELSE exit_code

\* transcribe_with_chunking returns s
Return(s) ==
    /\ sentences' = s
    /\ pc' = IF caller = "main" THEN "print" ELSE "returned"

InitCommon ==
    /\ total_samples = 0
    /\ start = 0
    /\ chunk_idx = 0
    /\ calls = <<>>
    /\ sentences = <<>>
    /\ printed = 0
    /\ stdout_buf = <<>>
    /\ stdout = <<>>
    /\ marker = FALSE
    /\ exit_code = 0

InitMain ==
    /\ pc = "main"
    /\ caller = "main"
    /\ chunk_duration \in ChunkDurations
    /\ overlap_duration = DEFAULT_OVERLAP_DURATION
    /\ completion_marker \in BOOLEAN
    /\ all_tokens = <<>>
    /\ all_timestamps = <<>>
    /\ InitCommon

InitDirect ==
    /\ pc = "load_audio"
    /\ caller = "transcribe_with_chunking"
    /\ \E c \in DirectConfigs : chunk_duration = c[1] /\ overlap_duration = c[2]
    /\ completion_marker = FALSE
    /\ all_tokens = <<>>
    /\ all_timestamps = <<>>
    /\ InitCommon

InitSegment ==
    /\ pc = "segment"
    /\ caller = "tokens_to_sentences"
    /\ chunk_duration = DEFAULT_CHUNK_DURATION
    /\ overlap_duration = DEFAULT_OVERLAP_DURATION
    /\ completion_marker = FALSE
    /\ \E k \in 0..MaxSegTokens :
         /\ all_tokens \in SeqsOfLen(TokenTexts, k)
         /\ all_timestamps \in SeqsOfLen(SegTimestamps, k)
    /\ InitCommon

Init == InitMain \/ InitDirect \/ InitSegment

\* ------------------------------------------------------------------ main
\* main up to the call of transcribe_with_chunking
Main ==
    /\ pc = "main"
    /\ \/ \* the audio file does not exist: sys.exit(1) outside the try block
          /\ pc' = "exited"
          /\ exit_code' = 1
       \/ \* load_model raises
          RaiseException
       \/ /\ pc' = "load_audio"
          /\ UNCHANGED exit_code
    /\ UNCHANGED <<caller, chunk_duration, overlap_duration, completion_marker,
                   total_samples, start, chunk_idx, all_tokens, all_timestamps,
                   calls, sentences, printed, stdout_buf, stdout, marker>>

\* ------------------------------------------------ transcribe_with_chunking
\* from the entry of the function to its first asr.recognize call
LoadAudio ==
    /\ pc = "load_audio"
    /\ \/ \* load_audio_with_ffmpeg raises RuntimeError
          /\ RaiseException
          /\ UNCHANGED <<total_samples, sentences>>
       \/ \E n \in TotalSamples :
            /\ total_samples' = n
            /\ IF n * TicksPerSample <= chunk_duration
               THEN /\ pc' = "recognize"
                    /\ UNCHANGED <<sentences, exit_code>>
               ELSE IF stride = 0
               THEN \* range(0, total_samples, 0) raises ValueError
                    /\ RaiseException
                    /\ UNCHANGED sentences
               ELSE IF stride < 0
               THEN \* range(0, total_samples, stride) is empty
                    /\ Return(tokens_to_sentences(all_tokens, all_timestamps))
                    /\ UNCHANGED exit_code
               ELSE /\ pc' = "loop"
                    /\ UNCHANGED <<sentences, exit_code>>
    /\ UNCHANGED <<caller, chunk_duration, overlap_duration, completion_marker,
                   start, chunk_idx, all_tokens, all_timestamps, calls, printed,
                   stdout_buf, stdout, marker>>

\* the short file branch: one call on the whole audio
RecognizeShort ==
    /\ pc = "recognize"
    /\ \/ /\ calls' = Append(calls, Call(RaisedResult, 0, total_samples))
          /\ RaiseException
          /\ UNCHANGED sentences
       \/ \E result \in RecognizerResults :
            /\ calls' = Append(calls, Call(result, 0, total_samples))
            /\ IF result.kind = "timed"
               THEN Return(tokens_to_sentences(result.tokens, result.timestamps))
               ELSE Return(<<[text |-> result.text, start |-> 0, end |-> duration]>>)
            /\ UNCHANGED exit_code
    /\ UNCHANGED <<caller, chunk_duration, overlap_duration, completion_marker,
                   total_samples, start, chunk_idx, all_tokens, all_timestamps,
                   printed, stdout_buf, stdout, marker>>

\* Accept with the filter left out
AcceptAll(ts, overlap_end, last_prev_time) == TRUE

\* Accept with ">" written for ">=" at the overlap cutoff
AcceptStrict(ts, overlap_end, last_prev_time) ==
    ts > overlap_end \/ ts > last_prev_time

\* the test of the overlap filter
Accept(ts, overlap_end, last_prev_time) ==
    ts >= overlap_end \/ ts > last_prev_time

\* OverlapEnd with overlap_duration left out
OverlapEndAtChunkStart(chunk_start) == chunk_start

\* overlap_end = chunk_start + overlap_duration
OverlapEnd(chunk_start) == chunk_start + overlap_duration

\* the <<token, timestamp>> pairs of result that are appended to the stream
\* built so far, whose timestamps are prev_timestamps
Stitched(result, chunk_start, idx, prev_timestamps) ==
    LET adjusted_timestamps ==
            [i \in 1..Len(result.timestamps) |-> result.timestamps[i] + chunk_start]
        pairs == [i \in 1..Min(Len(result.tokens), Len(adjusted_timestamps)) |->
                    <<result.tokens[i], adjusted_timestamps[i]>>]
        Keep(p) == Accept(p[2], OverlapEnd(chunk_start), Last(prev_timestamps))
    IN IF idx > 0 /\ prev_timestamps # <<>>
       THEN SelectSeq(pairs, Keep)
       ELSE pairs

\* one pass of the chunk loop, with the return that follows the last pass
RecognizeChunk ==
    /\ pc = "loop"
    /\ LET end == Min(start + chunk_samples, total_samples)
           chunk_start == start * TicksPerSample
       IN \/ /\ calls' = Append(calls, Call(RaisedResult, start, end))
             /\ RaiseException
             /\ UNCHANGED <<start, chunk_idx, all_tokens, all_timestamps, sentences>>
          \/ \E result \in RecognizerResults :
               LET kept == IF result.kind = "timed"
                           THEN Stitched(result, chunk_start, chunk_idx, all_timestamps)
                           ELSE <<>>
                   new_tokens == all_tokens \o [i \in 1..Len(kept) |-> kept[i][1]]
                   new_timestamps == all_timestamps \o [i \in 1..Len(kept) |-> kept[i][2]]
               IN /\ calls' = Append(calls, Call(result, start, end))
                  /\ all_tokens' = new_tokens
                  /\ all_timestamps' = new_timestamps
                  /\ chunk_idx' = chunk_idx + 1
                  /\ IF end >= total_samples \/ start + stride >= total_samples
                     THEN /\ Return(tokens_to_sentences(new_tokens, new_timestamps))
                          /\ UNCHANGED start
                     ELSE /\ start' = start + stride
                          /\ UNCHANGED <<pc, sentences>>
                  /\ UNCHANGED exit_code
    /\ UNCHANGED <<caller, chunk_duration, overlap_duration, completion_marker,
                   total_samples, printed, stdout_buf, stdout, marker>>

\* ------------------------------------------------------ main, after the call
\* json.dumps(segment)
json_dumps(segment) == [line |-> segment]

\* one pass of "for segment in sentences: print(json.dumps(segment))"; the
\* buffer of sys.stdout may or may not be written through at once
PrintSegment ==
    /\ pc = "print"
    /\ printed < Len(sentences)
    /\ \/ \* the write raises (closed pipe)
          /\ RaiseException
          /\ UNCHANGED <<printed, stdout_buf, stdout>>
       \/ /\ printed' = printed + 1
          /\ \/ /\ stdout_buf' = Append(stdout_buf, json_dumps(sentences[printed + 1]))
                /\ UNCHANGED stdout
             \/ /\ stdout' = stdout \o Append(stdout_buf, json_dumps(sentences[printed + 1]))
                /\ stdout_buf' = <<>>
          /\ UNCHANGED <<pc, exit_code>>
    /\ UNCHANGED <<caller, chunk_duration, overlap_duration, completion_marker,
                   total_samples, start, chunk_idx, all_tokens, all_timestamps,
                   calls, sentences, marker>>

\* FlushStdout with the flush left out
FlushStdoutSkipped ==
    /\ pc = "print"
    /\ printed = Len(sentences)
    /\ pc' = "marker"
    /\ UNCHANGED <<caller, chunk_duration, overlap_duration, completion_marker,
                   total_samples, start, chunk_idx, all_tokens, all_timestamps,
                   calls, sentences, printed, marker, stdout_buf, stdout,
                   exit_code>>

\* sys.stdout.flush()
FlushStdout ==
    /\ pc = "print"
    /\ printed = Len(sentences)
    /\ \/ /\ RaiseException
          /\ UNCHANGED <<stdout_buf, stdout>>
       \/ /\ stdout' = stdout \o stdout_buf
          /\ stdout_buf' = <<>>
          /\ pc' = "marker"
          /\ UNCHANGED exit_code
    /\ UNCHANGED <<caller, chunk_duration, overlap_duration, completion_marker,
                   total_samples, start, chunk_idx, all_tokens, all_timestamps,
                   calls, sentences, printed, marker>>

\* the completion marker, and the normal end of main
WriteMarker ==
    /\ pc = "marker"
    /\ \/ \* open(args.completion_marker, 'w') raises
          /\ completion_marker
          /\ RaiseException
          /\ UNCHANGED marker
       \/ /\ marker' = completion_marker
          /\ pc' = "exited"
          /\ exit_code' = 0
    /\ UNCHANGED <<caller, chunk_duration, overlap_duration, completion_marker,
                   total_samples, start, chunk_idx, all_tokens, all_timestamps,
                   calls, sentences, printed, stdout_buf, stdout>>

\* a direct call of tokens_to_sentences
Segment ==
    /\ pc = "segment"
    /\ sentences' = tokens_to_sentences(all_tokens, all_timestamps)
    /\ pc' = "returned"
    /\ UNCHANGED <<caller, chunk_duration, overlap_duration, completion_marker,
                   total_samples, start, chunk_idx, all_tokens, all_timestamps,
                   calls, printed, stdout_buf, stdout, marker, exit_code>>

Next ==
    \/ Main
    \/ LoadAudio
    \/ RecognizeShort
    \/ RecognizeChunk
    \/ PrintSegment
    \/ FlushStdout
    \/ WriteMarker
    \/ Segment

Spec == Init /\ [][Next]_vars

\* ------------------------------------------------------------- vocabulary
NonDecreasing(s) == \A i \in 1..(Len(s) - 1) : s[i] <= s[i + 1]

\* the run is in, or has left, the chunk loop
InChunkedPath ==
    /\ caller # "tokens_to_sentences"
    /\ total_samples > 0
    /\ duration > chunk_duration
    /\ stride > 0

\* transcribe_with_chunking has just returned
JustReturned == pc \in {"returned", "print"}

\* positions in all_timestamps of the tokens appended for the i-th call
AppendedBy(i) ==
    (calls[i].prev_len + 1) ..
        (IF i < Len(calls) THEN calls[i + 1].prev_len ELSE Len(all_timestamps))

\* start time of the i-th window, in ticks
WindowStartTime(i) == calls[i].start * TicksPerSample

\* global timestamps of the tokens the i-th call returned
GlobalTimestamps(i) ==
    [k \in 1..Len(calls[i].timestamps) |-> calls[i].timestamps[k] + WindowStartTime(i)]

\* last timestamp of the running stream when stitching of window i begins
LastAcceptedTime(i) == all_timestamps[calls[i].prev_len]

\* windows after the first that are stitched against a non-empty stream
StitchedWindows == {i \in 2..Len(calls) : calls[i].prev_len > 0}

\* C1 (as stated): in the chunked path, no token appended for a window
\* after the first has a global timestamp below last_accepted_time.
C1_NeverBelowLastAccepted ==
    InChunkedPath =>
      \A i \in StitchedWindows : \A k \in AppendedBy(i) :
        all_timestamps[k] >= LastAcceptedTime(i)

\* C1 (amended): in the chunked path, no token appended for a window after
\* the first has a global timestamp that is below last_accepted_time and
\* also below the window's overlap cutoff (window start + overlap_duration).
C1_NeverBelowLastAndCutoff ==
    InChunkedPath =>
      \A i \in StitchedWindows : \A k \in AppendedBy(i) :
        ~ (/\ all_timestamps[k] < LastAcceptedTime(i)
           /\ all_timestamps[k] < WindowStartTime(i) + overlap_duration)

\* a later window returned a token below both limits, and it was dropped
C1_Witness ==
    /\ InChunkedPath
    /\ \E i \in StitchedWindows :
         /\ Cardinality(AppendedBy(i)) < Len(calls[i].tokens)
         /\ \E k \in 1..Len(calls[i].tokens) :
              /\ GlobalTimestamps(i)[k] < LastAcceptedTime(i)
              /\ GlobalTimestamps(i)[k] < WindowStartTime(i) + overlap_duration

\* samples at which a gap between windows would have to begin
GapCandidates ==
    {0, total_samples - 1} \cup
    {calls[i].end : i \in {j \in 1..Len(calls) : calls[j].end < total_samples}}

Covered(sample) ==
    \E i \in 1..Len(calls) : calls[i].start <= sample /\ sample < calls[i].end

\* number of samples windows i and i + 1 share
Overlap(i) == Min(calls[i].end, calls[i + 1].end) - calls[i + 1].start

\* the chunk loop has run to its end
LoopDone ==
    /\ InChunkedPath
    /\ pc # "loop"
    /\ calls # <<>>
    /\ Last(calls).kind # "raise"

\* C2: when the chunk loop has run to its end, its windows leave no sample
\* of [0, total_samples) uncovered (a gap would begin at sample 0 or at
\* the end of a window), and every adjacent pair of windows except possibly
\* the last pair shares exactly overlap_samples samples.
C2_WindowsCoverAndOverlap ==
    LoopDone =>
      /\ \A sample \in GapCandidates : Covered(sample)
      /\ \A i \in 1..Len(calls) :
           calls[i].start >= 0 /\ calls[i].start < calls[i].end
           /\ calls[i].end <= total_samples
      /\ \A i \in 1..(Len(calls) - 2) : Overlap(i) = overlap_samples

\* three windows, the last of them shorter than a chunk
C2_Witness ==
    /\ LoopDone
    /\ Len(calls) >= 3
    /\ overlap_samples > 0
    /\ Last(calls).end - Last(calls).start < chunk_samples

\* every recognizer call so far returned non-decreasing timestamps
CallsNonDecreasing == \A i \in 1..Len(calls) : NonDecreasing(calls[i].timestamps)

\* no timestamp returned so far exceeds the duration of its window
CallsWithinWindow ==
    \A i \in 1..Len(calls) : \A k \in 1..Len(calls[i].timestamps) :
      calls[i].timestamps[k] <= (calls[i].end - calls[i].start) * TicksPerSample

\* C3 (as stated): if every recognizer call returned non-decreasing
\* timestamps, the running stream is non-decreasing.
C3_StreamNonDecreasing ==
    (InChunkedPath /\ CallsNonDecreasing) => NonDecreasing(all_timestamps)

\* C3 (amended): if every recognizer call returned non-decreasing timestamps
\* none of which exceeds the duration of its window, the running stream is
\* non-decreasing.
C3_StreamNonDecreasingWithinWindow ==
    (InChunkedPath /\ CallsNonDecreasing /\ CallsWithinWindow)
      => NonDecreasing(all_timestamps)

\* a second window with two tokens, of which only the later was kept
C3_Witness ==
    /\ InChunkedPath /\ CallsNonDecreasing /\ CallsWithinWindow
    /\ JustReturned
    /\ Len(calls) >= 2
    /\ calls[2].prev_len > 0
    /\ Len(calls[2].tokens) = 2
    /\ Cardinality(AppendedBy(2)) = 1

\* lines of stdout that the sentences of the run make
SegmentLines == [i \in 1..Len(sentences) |-> json_dumps(sentences[i])]

\* C4: whenever the completion marker exists the run has ended with status
\* 0 and every segment line of the run is readable on stdout, none of them
\* still buffered.
C4_MarkerAfterFlushedOutput ==
    marker =>
      /\ pc = "exited" /\ exit_code = 0
      /\ stdout = SegmentLines
      /\ stdout_buf = <<>>

\* a marker written after two or more segment lines
C4_Witness == marker /\ Len(sentences) >= 2 /\ Len(stdout) >= 2

\* C5: under main, a stride <= 0 never lets transcribe_with_chunking return
\* a transcript, and the process ends with a non-zero status.
C5_NonPositiveStrideFails ==
    (caller = "main" /\ stride <= 0) =>
      /\ pc \notin {"print", "marker"}
      /\ (pc = "exited" => exit_code # 0)

\* C6: when every recognizer call of a run returned a plain text,
\* transcribe_with_chunking returns exactly one sentence, spanning the
\* whole input.
C6_PlainTextSingleSentence ==
    (/\ caller # "tokens_to_sentences"
     /\ JustReturned
     /\ calls # <<>>
     /\ \A i \in 1..Len(calls) : calls[i].kind = "plain")
      => /\ Len(sentences) = 1
         /\ sentences[1].text \in PlainTexts
         /\ sentences[1].start = 0
         /\ sentences[1].end = duration

\* the trimmed text of no token ends with '.', '!' or '?'
NoTerminalPunctuation(tokens) ==
    \A i \in 1..Len(tokens) :
      LET t == Strip(tokens[i])
      IN t = <<>> \/ t[Len(t)] \notin {".", "!", "?"}

\* a direct call of tokens_to_sentences has returned
SegmentReturned == caller = "tokens_to_sentences" /\ pc = "returned"

OneSentenceSpanningAll ==
    /\ Len(sentences) = 1
    /\ sentences[1].start = all_timestamps[1]
    /\ sentences[1].end = Last(all_timestamps) + FALLBACK_TAIL

\* C7 (as stated): a non-empty stream without terminal punctuation gives
\* exactly one sentence, from the first timestamp to the last + 0.16.
C7_OneSentenceWithoutPunctuation ==
    (SegmentReturned /\ all_tokens # <<>> /\ NoTerminalPunctuation(all_tokens))
      => OneSentenceSpanningAll

\* C7 (amended): a non-empty stream without terminal punctuation whose
\* joined text is not empty after trimming gives exactly one sentence, from
\* the first timestamp to the last + 0.16.
C7_OneSentenceWithoutPunctuationNonBlank ==
    (/\ SegmentReturned /\ all_tokens # <<>>
     /\ NoTerminalPunctuation(all_tokens)
     /\ Strip(Join(all_tokens)) # <<>>)
      => OneSentenceSpanningAll

\* three tokens, one of them with punctuation inside but not at its end
C7_Witness ==
    /\ SegmentReturned
    /\ Len(all_tokens) = 3
    /\ NoTerminalPunctuation(all_tokens)
    /\ Strip(Join(all_tokens)) # <<>>
    /\ \E i \in 1..3 : \E j \in 1..Len(all_tokens[i]) : all_tokens[i][j] = "."
    /\ all_timestamps[1] < all_timestamps[3]

\* the running stream is the concatenation of what the calls cs returned,
\* shifted by each window's start time
RECURSIVE ConcatTokens(_)
ConcatTokens(cs) ==
    IF cs = <<>> THEN <<>> ELSE Head(cs).tokens \o ConcatTokens(Tail(cs))

RECURSIVE ConcatShifted(_)
ConcatShifted(cs) ==
    IF cs = <<>> THEN <<>>
    ELSE [k \in 1..Len(Head(cs).timestamps) |->
            Head(cs).timestamps[k] + Head(cs).start * TicksPerSample]
         \o ConcatShifted(Tail(cs))

\* C8: with overlap_duration = 0 the running stream is at every moment the
\* concatenation, in window order, of the per-window streams with their
\* timestamps shifted by the window's start time.
C8_ZeroOverlapConcatenates ==
    (InChunkedPath /\ overlap_duration = 0) =>
      /\ all_tokens = ConcatTokens(calls)
      /\ all_timestamps = ConcatShifted(calls)

\* with no overlap, a second window's token that is not later than the
\* last accepted one was kept
C8_Witness ==
    /\ InChunkedPath /\ overlap_duration = 0
    /\ JustReturned
    /\ Len(calls) >= 2
    /\ calls[2].prev_len > 0
    /\ Len(calls[2].tokens) > 0
    /\ GlobalTimestamps(2)[1] <= LastAcceptedTime(2)

\* positions of the tokens that close a group
Boundaries ==
    {i \in 1..Len(all_tokens) :
       i = Len(all_tokens) \/ ~ NoTerminalPunctuation(<<all_tokens[i]>>)}

\* position of the first token of the group that b closes
GroupFirst(b) ==
    LET before == {j \in Boundaries : j < b}
    IN IF before = {} THEN 1
       ELSE 1 + CHOOSE j \in before : \A m \in before : m <= j

\* closing positions of the groups whose text is not blank
Emitting ==
    {b \in Boundaries : Strip(Join(SubSeq(all_tokens, GroupFirst(b), b))) # <<>>}

\* the closing position of the n-th emitted sentence
NthEmitting(n) ==
    CHOOSE b \in Emitting : Cardinality({c \in Emitting : c <= b}) = n

\* C9: for a stream with non-decreasing timestamps, the sentences come one
\* per non-blank group, in non-decreasing start order, each with
\* start <= end and start equal to the timestamp of the first token of its
\* group.
C9_SentencesOrderedFromFirstToken ==
    (SegmentReturned /\ NonDecreasing(all_timestamps)) =>
      /\ Len(sentences) = Cardinality(Emitting)
      /\ \A n \in 1..Len(sentences) :
           /\ sentences[n].start = all_timestamps[GroupFirst(NthEmitting(n))]
           /\ sentences[n].start <= sentences[n].end
      /\ \A n \in 1..(Len(sentences) - 1) :
           sentences[n].start <= sentences[n + 1].start

\* two sentences, the second starting later than the first, after a blank
\* group was dropped
C9_Witness ==
    /\ SegmentReturned /\ NonDecreasing(all_timestamps)
    /\ Len(sentences) = 2
    /\ sentences[1].start < sentences[2].start
    /\ Cardinality(Boundaries) = 3

\* C10: under main, once a recognizer call has raised, that call is the
\* last one made, each window was recognized at most once, nothing was
\* written to stdout, no completion marker exists and the process has
\* exited with status 1.
C10_RecognizerFailureAbandonsRun ==
    (caller = "main" /\ \E i \in 1..Len(calls) : calls[i].kind = "raise") =>
      /\ Last(calls).kind = "raise"
      /\ \A i \in 1..(Len(calls) - 1) :
           calls[i].kind # "raise" /\ calls[i].start < calls[i + 1].start
      /\ stdout = <<>> /\ stdout_buf = <<>>
      /\ ~ marker
      /\ pc = "exited" /\ exit_code = 1

\* the second window's call raised after the first window gave tokens
C10_Witness ==
    /\ caller = "main"
    /\ Len(calls) = 2
    /\ calls[2].kind = "raise"
    /\ all_tokens # <<>>
    /\ pc = "exited"

====
